---- MODULE Spec2Model ----
(***************************************************************************)
(* Model of the complaint analysis pipeline of GrievanceInsight            *)
(* (backend/grievance_summarizer.py) and of the REST handlers of           *)
(* backend/app.py that call it.                                            *)
(*                                                                         *)
(* A text is a sequence of one-character strings, so that lower(), strip() *)
(* and the substring test `word in text` are computed character by         *)
(* character as the Python code computes them.                             *)
(***************************************************************************)
EXTENDS Integers, Sequences, FiniteSets, TLC

VARIABLES
    pc,                   \* position inside process_complaints
    data,                 \* the `data` argument of the call in progress
    df,                   \* the DataFrame: [columns, rows]
    trends,               \* what extract_trends returned
    result,               \* what process_complaints returned (None or the dashboard)
    _sentiment_pipeline,  \* GrievanceSummarizer._sentiment_pipeline
    _summarizer_pipeline, \* GrievanceSummarizer._summarizer_pipeline
    pipeline_calls,       \* the calls the two pipelines received during the current call
    endpoint,             \* the REST handler of the current request ("none": a direct call)
    request,              \* what the current request carries
    status,               \* HTTP status code of the response (0: not answered yet)
    detail,               \* the detail of an error response
    startup,              \* what startup_event did ("pending": the app is not serving yet)
    db_calls,             \* the calls db_manager received during the current request
    tables,               \* the rows of user_grievances and of analysis_results
    analytics,            \* the last response of GET /analytics/db
    run,                  \* which run on the same batch this is (1 or 2)
    first                 \* the dashboard summary of the first run on the batch

vars == <<pc, data, df, trends, result, _sentiment_pipeline, _summarizer_pipeline,
          pipeline_calls, endpoint, request, status, detail, startup, db_calls, tables,
          analytics, run, first>>

\* the state of the REST layer, and of the comparison of two runs
api == <<endpoint, request, status, detail, startup, db_calls, tables, analytics>>

twice == <<run, first>>

(***************************************************************************)
(* Bounds of the model.                                                    *)
(***************************************************************************)
MaxBatch == 2       \* longest batch handed to process_complaints
MaxFrags == 2       \* a single complaint text is made of at most MaxFrags fragments

(***************************************************************************)
(* Characters and Python's str methods.                                    *)
(***************************************************************************)
Whitespace == {" ", "\t"}

Lowers == <<"a", "b", "c", "d", "e", "f", "g", "h", "i", "j", "k", "l", "m",
            "n", "o", "p", "q", "r", "s", "t", "u", "v", "w", "x", "y", "z">>

Uppers == <<"A", "B", "C", "D", "E", "F", "G", "H", "I", "J", "K", "L", "M",
            "N", "O", "P", "Q", "R", "S", "T", "U", "V", "W", "X", "Y", "Z">>

\* str.lower() on one character
lower_char(c) ==
    IF \E i \in 1..Len(Uppers) : Uppers[i] = c
    THEN Lowers[CHOOSE i \in 1..Len(Uppers) : Uppers[i] = c]
    ELSE c

\* str.upper() on one character
upper_char(c) ==
    IF \E i \in 1..Len(Lowers) : Lowers[i] = c
    THEN Uppers[CHOOSE i \in 1..Len(Lowers) : Lowers[i] = c]
    ELSE c

\* str.lower()
lower(text) == [i \in 1..Len(text) |-> lower_char(text[i])]

\* str.strip(): drops leading and trailing whitespace only
strip(text) ==
    LET keep == {i \in 1..Len(text) : text[i] \notin Whitespace}
    IN  IF keep = {} THEN <<>>
        ELSE LET lo == CHOOSE i \in keep : \A j \in keep : i <= j
                 hi == CHOOSE i \in keep : \A j \in keep : j <= i
             IN  SubSeq(text, lo, hi)

\* str.capitalize(): first character upper-cased, the rest lower-cased
capitalize(text) ==
    [i \in 1..Len(text) |-> IF i = 1 THEN upper_char(text[i]) ELSE lower_char(text[i])]

\* Python's `word in text` on strings: substring containment
Contains(text, word) ==
    \E i \in 1..(Len(text) + 1 - Len(word)) :
        \A j \in 1..Len(word) : text[i + j - 1] = word[j]

\* any(word in text for word in words)
ContainsAny(text, words) == \E w \in words : Contains(text, w)

(***************************************************************************)
(* GrievanceSummarizer.__init__: static configuration.                     *)
(***************************************************************************)
categories == <<"Hostel", "Mess", "Academics", "Administration">>

\* self.stopwords
stopwords ==
    {<<"i">>, <<"m","e">>, <<"m","y">>, <<"m","y","s","e","l","f">>,
     <<"w","e">>, <<"o","u","r">>, <<"o","u","r","s">>, <<"o","u","r","s","e","l","v","e","s">>,
     <<"y","o","u">>, <<"y","o","u","r">>, <<"y","o","u","r","s">>, <<"y","o","u","r","s","e","l","f">>,
     <<"y","o","u","r","s","e","l","v","e","s">>, <<"h","e">>, <<"h","i","m">>, <<"h","i","s">>,
     <<"h","i","m","s","e","l","f">>, <<"s","h","e">>, <<"h","e","r">>, <<"h","e","r","s">>,
     <<"h","e","r","s","e","l","f">>, <<"i","t">>, <<"i","t","s">>, <<"i","t","s","e","l","f">>,
     <<"t","h","e","y">>, <<"t","h","e","m">>, <<"t","h","e","i","r">>, <<"t","h","e","i","r","s">>,
     <<"t","h","e","m","s","e","l","v","e","s">>, <<"w","h","a","t">>, <<"w","h","i","c","h">>, <<"w","h","o">>,
     <<"w","h","o","m">>, <<"t","h","i","s">>, <<"t","h","a","t">>, <<"t","h","e","s","e">>,
     <<"t","h","o","s","e">>, <<"a","m">>, <<"i","s">>, <<"a","r","e">>,
     <<"w","a","s">>, <<"w","e","r","e">>, <<"b","e">>, <<"b","e","e","n">>,
     <<"b","e","i","n","g">>, <<"h","a","v","e">>, <<"h","a","s">>, <<"h","a","d">>,
     <<"h","a","v","i","n","g">>, <<"d","o">>, <<"d","o","e","s">>, <<"d","i","d">>,
     <<"d","o","i","n","g">>, <<"a">>, <<"a","n">>, <<"t","h","e">>,
     <<"a","n","d">>, <<"b","u","t">>, <<"i","f">>, <<"o","r">>,
     <<"b","e","c","a","u","s","e">>, <<"a","s">>, <<"u","n","t","i","l">>, <<"w","h","i","l","e">>,
     <<"o","f">>, <<"a","t">>, <<"b","y">>, <<"f","o","r">>,
     <<"w","i","t","h">>, <<"t","h","r","o","u","g","h">>, <<"d","u","r","i","n","g">>, <<"b","e","f","o","r","e">>,
     <<"a","f","t","e","r">>, <<"a","b","o","v","e">>, <<"b","e","l","o","w">>, <<"u","p">>,
     <<"d","o","w","n">>, <<"i","n">>, <<"o","u","t">>, <<"o","n">>,
     <<"o","f","f">>, <<"o","v","e","r">>, <<"u","n","d","e","r">>, <<"a","g","a","i","n">>,
     <<"f","u","r","t","h","e","r">>, <<"t","h","e","n">>, <<"o","n","c","e">>, <<"t","o">>}

(***************************************************************************)
(* The keyword lists of classify_text, in the order the code tests them.   *)
(***************************************************************************)
HostelWords ==
    {<<"h","o","s","t","e","l">>, <<"r","o","o","m">>,
     <<"f","a","n">>, <<"w","a","t","e","r">>,
     <<"w","a","s","h","r","o","o","m">>, <<"l","e","a","k">>,
     <<"r","o","o","m","m","a","t","e">>}

MessWords ==
    {<<"m","e","s","s">>, <<"f","o","o","d">>,
     <<"c","h","i","c","k","e","n">>, <<"q","u","a","l","i","t","y">>}

AcademicsWords ==
    {<<"g","r","a","d","e">>, <<"c","o","u","r","s","e">>,
     <<"p","o","r","t","a","l">>, <<"r","e","g","i","s","t","r","a","t","i","o","n">>}

AdministrationWords ==
    {<<"s","t","a","f","f">>, <<"a","d","m","i","n","i","s","t","r","a","t","i","o","n">>,
     <<"o","f","f","i","c","e">>, <<"f","e","e","s">>}

\* The labels np.random.choice draws from in analyze_sentiment
Sentiments == {"Negative", "Neutral", "Positive"}

Urgencies == {"High", "Medium", "Low"}

\* The labels of distilbert-base-uncased-finetuned-sst-2-english
ModelLabels == {"NEGATIVE", "POSITIVE"}

\* the label of the model passed on as it is
capitalize_label_unchanged(label) == label

\* str.capitalize() on a label of the sentiment model
capitalize_label(label) ==
    CASE label = "NEGATIVE" -> "Negative"
      [] label = "POSITIVE" -> "Positive"
      [] OTHER -> label

Range(f) == {f[i] : i \in DOMAIN f}

\* one value per row: the functions that pick, for every i, an element of sets[i]
Choices(sets) ==
    {f \in [DOMAIN sets -> UNION Range(sets)] : \A i \in DOMAIN sets : f[i] \in sets[i]}

\* classify_text drawing every category at random, keywords or not
classify_text_all_random(text) == Range(categories)

\* the draw of a label outside the four categories
random_category_other == {"Other"}

\* np.random.choice(self.categories, p=[0.35, 0.35, 0.15, 0.15]): every
\* category has a positive weight
random_category == Range(categories)

\* classify_text with the Mess rule tested before the Hostel rule
classify_text_mess_first(text) ==
    LET text_lower == lower(text)
    IN  IF ContainsAny(text_lower, MessWords) THEN {"Mess"}
        ELSE IF ContainsAny(text_lower, HostelWords) THEN {"Hostel"}
        ELSE IF ContainsAny(text_lower, AcademicsWords) THEN {"Academics"}
        ELSE IF ContainsAny(text_lower, AdministrationWords) THEN {"Administration"}
        ELSE Range(categories)

(***************************************************************************)
(* classify_text: the set of values the call can return.  The first rule   *)
(* with a keyword in the text decides; a text without any keyword gets a   *)
(* category drawn by np.random.choice (every category has weight > 0).     *)
(***************************************************************************)
classify_text(text) ==
    LET text_lower == lower(text)
    IN  IF ContainsAny(text_lower, HostelWords) THEN {"Hostel"}
        ELSE IF ContainsAny(text_lower, MessWords) THEN {"Mess"}
        ELSE IF ContainsAny(text_lower, AcademicsWords) THEN {"Academics"}
        ELSE IF ContainsAny(text_lower, AdministrationWords) THEN {"Administration"}
        ELSE random_category

(***************************************************************************)
(* Raw records and the DataFrame.  A raw record is a dict: its raw_text is *)
(* a string, or None/NaN, or the key is absent.                            *)
(***************************************************************************)
Str(t) == [kind |-> "str", text |-> t]

NaN == [kind |-> "nan", text |-> <<>>]

NoKey == [kind |-> "nokey", text |-> <<>>]

\* pd.isna(value)
isna(value) == value.kind = "nan"

Unset == "<unset>"

\* pd.DataFrame(data): a raw_text column exists when some record has the key;
\* the records without the key get NaN in it.
DataFrame(d) ==
    [columns |-> IF \E i \in 1..Len(d) : d[i].kind # "nokey" THEN {"raw_text"} ELSE {},
     rows    |-> [i \in 1..Len(d) |->
                     [raw_text   |-> IF d[i].kind = "nokey" THEN NaN ELSE d[i],
                      clean_text |-> <<>>,
                      category   |-> Unset,
                      sentiment  |-> Unset,
                      urgency    |-> Unset]]]

NoFrame == [columns |-> {}, rows |-> <<>>]

\* drop_duplicates with keep='last'
RECURSIVE drop_duplicates_keep_last(_)
drop_duplicates_keep_last(rows) ==
    IF rows = <<>> THEN <<>>
    ELSE IF \E j \in 2..Len(rows) : rows[j].raw_text = rows[1].raw_text
         THEN drop_duplicates_keep_last(Tail(rows))
         ELSE <<rows[1]>> \o drop_duplicates_keep_last(Tail(rows))

\* df.drop_duplicates(subset=['raw_text']): keeps the first row of every
\* raw_text value, in the original order (all missing values count as equal)
RECURSIVE drop_duplicates(_)
drop_duplicates(rows) ==
    IF rows = <<>> THEN <<>>
    ELSE LET n    == Len(rows)
             init == drop_duplicates(SubSeq(rows, 1, n - 1))
         IN  IF \E j \in 1..(n - 1) : rows[j].raw_text = rows[n].raw_text
             THEN init
             ELSE Append(init, rows[n])

\* clean_text without the strip()
clean_text_no_strip(value) == IF isna(value) THEN <<>> ELSE lower(value.text)

\* the inner function clean_text of clean_data
clean_text(value) == IF isna(value) THEN <<>> ELSE strip(lower(value.text))

\* clean_data on the rows of a frame that has a raw_text column
clean_data_rows(rows) ==
    LET kept == drop_duplicates(rows)
    IN  [i \in 1..Len(kept) |-> [kept[i] EXCEPT !.clean_text = clean_text(kept[i].raw_text)]]

(***************************************************************************)
(* Trend extraction.                                                       *)
(***************************************************************************)
\* characters the regex class \w does not match
NonWord == Whitespace \cup {".", ",", "!", "'"}

\* re.findall(r'\b\w+\b', text): the maximal runs of word characters, from
\* left to right
findall_words(text) ==
    LET n         == Len(text)
        word(i)   == text[i] \notin NonWord
        starts    == SelectSeq([i \in 1..n |-> i], LAMBDA i : word(i) /\ (i = 1 \/ ~word(i - 1)))
        end_of(b) == CHOOSE e \in b..n : /\ \A j \in b..e : word(j)
                                         /\ e = n \/ ~word(e + 1)
    IN  [k \in 1..Len(starts) |-> SubSeq(text, starts[k], end_of(starts[k]))]

_tokenize(text) == findall_words(lower(text))

\* str.isalnum(): the underscore is a word character but not alphanumeric
isalnum(w) == w # <<>> /\ \A i \in 1..Len(w) : w[i] # "_"

\* ' '.join(texts)
RECURSIVE join(_)
join(texts) ==
    IF texts = <<>> THEN <<>>
    ELSE IF Len(texts) = 1 THEN texts[1]
    ELSE texts[1] \o <<" ">> \o join(Tail(texts))

\* filtered_words without the test on the length
filtered_words_any_length(words) ==
    LET keep(w) == isalnum(w) /\ w \notin stopwords
    IN  SelectSeq(words, keep)

\* the list comprehension filtered_words of extract_trends
filtered_words(words) ==
    LET keep(w) == isalnum(w) /\ w \notin stopwords /\ Len(w) > 2
    IN  SelectSeq(words, keep)

\* the keys of Counter(words), in insertion (first occurrence) order
counter_keys(words) ==
    LET firsts == SelectSeq([i \in 1..Len(words) |-> i],
                            LAMBDA i : \A j \in 1..(i - 1) : words[j] # words[i])
    IN  [k \in 1..Len(firsts) |-> words[firsts[k]]]

\* Counter(words)[w]
count_of(words, w) == Cardinality({i \in 1..Len(words) : words[i] = w})

\* most_common with equal counts in reverse insertion order
most_common_ties_reversed(words, n) ==
    LET keys    == counter_keys(words)
        c(k)    == count_of(words, keys[k])
        rank(k) == Cardinality({j \in 1..Len(keys) : c(j) > c(k) \/ (c(j) = c(k) /\ j > k)})
        m       == IF Len(keys) < n THEN Len(keys) ELSE n
    IN  [r \in 1..m |->
            LET k == CHOOSE k \in 1..Len(keys) : rank(k) = r - 1
            IN  [word |-> keys[k], count |-> c(k)]]

\* Counter(words).most_common(n): by descending count; the sort is stable,
\* so equal counts stay in insertion order
most_common(words, n) ==
    LET keys    == counter_keys(words)
        c(k)    == count_of(words, keys[k])
        rank(k) == Cardinality({j \in 1..Len(keys) : c(j) > c(k) \/ (c(j) = c(k) /\ j < k)})
        m       == IF Len(keys) < n THEN Len(keys) ELSE n
    IN  [r \in 1..m |->
            LET k == CHOOSE k \in 1..Len(keys) : rank(k) = r - 1
            IN  [word |-> keys[k], count |-> c(k)]]

TopN == 3

\* recurring_issues of extract_trends: 'Frequent topic: "<Word>" (mentioned <n> times)'
recurring_issues(rows) ==
    LET all_text  == join([i \in 1..Len(rows) |-> rows[i].clean_text])
        top_words == most_common(filtered_words(_tokenize(all_text)), TopN)
    IN  [i \in 1..Len(top_words) |->
            [topic |-> capitalize(top_words[i].word), mentioned |-> top_words[i].count]]

(***************************************************************************)
(* Counting and the summary.                                               *)
(***************************************************************************)
\* value_counts with every label counted once (nunique-style slip)
value_counts_once(rows, col) ==
    [l \in {rows[i][col] : i \in 1..Len(rows)} |-> 1]

\* df[col].value_counts().to_dict(): label -> number of rows carrying it
value_counts(rows, col) ==
    LET labels == {rows[i][col] : i \in 1..Len(rows)}
    IN  [l \in labels |-> Cardinality({i \in 1..Len(rows) : rows[i][col] = l})]

\* sum(counts.values())
RECURSIVE sum_values(_)
sum_values(counts) ==
    IF DOMAIN counts = {} THEN 0
    ELSE LET l == CHOOSE l \in DOMAIN counts : TRUE
         IN  counts[l] + sum_values([k \in DOMAIN counts \ {l} |-> counts[k]])

\* df['category'].value_counts().index[0]: the most frequent category; among
\* equally frequent ones the one that appears first in the frame
top_category(rows) ==
    LET counts == value_counts(rows, "category")
        best   == {i \in 1..Len(rows) :
                      \A l \in DOMAIN counts : counts[l] <= counts[rows[i].category]}
    IN  IF rows = <<>> THEN "general"
        ELSE rows[CHOOSE i \in best : \A j \in best : i <= j].category

\* str.lower() on a category label
lower_label(label) ==
    CASE label = "Hostel" -> "hostel"
      [] label = "Mess" -> "mess"
      [] label = "Academics" -> "academics"
      [] label = "Administration" -> "administration"
      [] OTHER -> label

\* "Analysis of {len(df)} complaints shows primary concerns in {top_category.lower()} category. ..."
_generate_fallback_summary(rows) ==
    [kind |-> "fallback", complaints |-> Len(rows), category |-> lower_label(top_category(rows))]

SummaryMinLen == 50

SummaryPrefix == 2000

\* text[:n]
prefix(text, n) == IF Len(text) <= n THEN text ELSE SubSeq(text, 1, n)

\* the summary_text of the summarization model for the text it is given
model_summary(text) == [kind |-> "model", of |-> text]

\* summaries with an exception of the summarizer call leaving no summary
summaries_without_fallback(rows, summarizer) ==
    LET combined_text == join([i \in 1..Len(rows) |-> rows[i].clean_text])
    IN  IF summarizer = "loaded" /\ Len(combined_text) > SummaryMinLen
        THEN {model_summary(prefix(combined_text, SummaryPrefix)), [kind |-> "none"]}
        ELSE {_generate_fallback_summary(rows)}

\* the values `summary` can take in extract_trends
summaries(rows, summarizer) ==
    LET combined_text == join([i \in 1..Len(rows) |-> rows[i].clean_text])
    IN  IF summarizer = "loaded" /\ Len(combined_text) > SummaryMinLen
        THEN {model_summary(prefix(combined_text, SummaryPrefix)),   \* the call returns
              _generate_fallback_summary(rows)}                       \* the call raises
        ELSE {_generate_fallback_summary(rows)}

NoTrends == [top_recurring_issues |-> <<>>, weekly_summary |-> [kind |-> "none"]]

None == [kind |-> "None"]

Pending == [kind |-> "pending"]

\* dashboard_data of process_complaints
dashboard_data(rows, tr) ==
    [kind                         |-> "dashboard",
     total_complaints             |-> Len(rows),
     complaint_volume_by_category |-> value_counts(rows, "category"),
     sentiment_overview           |-> value_counts(rows, "sentiment"),
     urgency_distribution         |-> value_counts(rows, "urgency"),
     weekly_summary               |-> tr.weekly_summary,
     top_recurring_issues         |-> tr.top_recurring_issues,
     processed_complaints         |-> rows]

(***************************************************************************)
(* The lazily loaded model pipelines.  A handle is "None" until first use, *)
(* then "loaded", or "False" when loading raised.                          *)
(***************************************************************************)
\* a pipeline getter that loads again after a failed load
_get_pipeline_retrying(handle) ==
    IF handle \in {"None", "False"} THEN {"loaded", "False"} ELSE {handle}

\* the values _get_sentiment_pipeline / _get_summarizer_pipeline can leave in
\* the handle (and return)
_get_pipeline(handle) == IF handle = "None" THEN {"loaded", "False"} ELSE {handle}

\* get_sentiment of analyze_sentiment: the values it can return for a text
\* when the sentiment pipeline is loaded
get_sentiment(text) ==
    IF text = <<>> THEN {"Neutral"}
    ELSE {capitalize_label(l) : l \in ModelLabels}    \* the call returns a label
         \cup {"Neutral"}                              \* the call raises

\* sentiment_of with the fallback drawing lower-case labels
sentiment_of_lower_case(text, sentiment_pipeline) ==
    IF sentiment_pipeline = "loaded" THEN get_sentiment(text)
    ELSE {"negative", "neutral", "positive"}

\* the values df['sentiment'] can get for one row
sentiment_of(text, sentiment_pipeline) ==
    IF sentiment_pipeline = "loaded" THEN get_sentiment(text)
    ELSE Sentiments     \* np.random.choice(['Negative', 'Neutral', 'Positive'], p=[0.7, 0.2, 0.1])

\* urgency_of drawing a priority number instead of a label
urgency_of_numbers(text) == {"1", "2", "3"}

\* the values df['urgency'] can get for one row:
\* np.random.choice(['High', 'Medium', 'Low'], p=[0.2, 0.5, 0.3])
urgency_of(text) == Urgencies

SentimentPrefix == 250

\* what one call of a pipeline can do: return (for the sentiment model, one
\* of its labels) or raise
SentimentOutcomes == ModelLabels \cup {"raises"}

\* get_sentiment passing the whole text to the pipeline
sentiment_input_whole_text(text) == text

\* the argument of the pipeline call in get_sentiment: text[:250]
sentiment_input(text) == prefix(text, SentimentPrefix)

\* what get_sentiment returns after a pipeline call with that outcome
sentiment_after(outcome) ==
    IF outcome = "raises" THEN "Neutral" ELSE capitalize_label(outcome)

\* the pipeline calls get_sentiment can have made for a text when it yields
\* `sentiment`: none without a loaded pipeline or for an empty text, else one
sentiment_calls(text, sentiment_pipeline, sentiment) ==
    IF sentiment_pipeline # "loaded" \/ text = <<>> THEN {<<>>}
    ELSE {<<[arg |-> sentiment_input(text), outcome |-> o]>> :
             o \in {o \in SentimentOutcomes : sentiment_after(o) = sentiment}}

\* the summarizer calls extract_trends has made when it yields `summary`
summarizer_calls(rows, summarizer, summary) ==
    LET combined_text == join([i \in 1..Len(rows) |-> rows[i].clean_text])
    IN  IF summarizer = "loaded" /\ Len(combined_text) > SummaryMinLen
        THEN <<[arg     |-> prefix(combined_text, SummaryPrefix),
                outcome |-> IF summary.kind = "model" THEN "returns" ELSE "raises"]>>
        ELSE <<>>

\* no pipeline has been called: one (empty) list of calls per row, and the
\* calls of the summarizer
NoCalls == [sentiment |-> <<>>, summarizer |-> <<>>]

\* the tables user_grievances and analysis_results without rows
NoRows == [user_grievances |-> <<>>, analysis_results |-> <<>>]

(***************************************************************************)
(* process_complaints, one action per stage of its body.                   *)
(***************************************************************************)
\* process_complaints answering an empty batch with an empty dashboard
process_complaints_empty_dashboard(d) ==
    /\ pc \in {"idle", "done"}
    /\ data' = d
    /\ trends' = NoTrends
    /\ IF d = <<>>
       THEN /\ pc' = "done"
            /\ df' = NoFrame
            /\ result' = dashboard_data(<<>>, NoTrends)
       ELSE /\ pc' = "loaded"
            /\ df' = DataFrame(d)
            /\ result' = Pending
    /\ pipeline_calls' = NoCalls
    /\ UNCHANGED <<_sentiment_pipeline, _summarizer_pipeline>>

\* the call: `data` falsy (None or an empty list) raises ValueError, which
\* the except clause turns into the return value None
process_complaints(d) ==
    /\ pc \in {"idle", "done"}
    /\ data' = d
    /\ trends' = NoTrends
    /\ IF d = <<>>
       THEN /\ pc' = "done"
            /\ df' = NoFrame
            /\ result' = None
       ELSE /\ pc' = "loaded"
            /\ df' = DataFrame(d)
            /\ result' = Pending
    /\ pipeline_calls' = NoCalls
    /\ UNCHANGED <<_sentiment_pipeline, _summarizer_pipeline>>

\* clean_data in a process_complaints without the try/except: the KeyError
\* of drop_duplicates reaches the caller
clean_data_exception_escapes ==
    /\ pc = "loaded"
    /\ IF "raw_text" \in df.columns
       THEN /\ df' = [columns |-> df.columns \cup {"clean_text"},
                      rows    |-> clean_data_rows(df.rows)]
            /\ pc' = "cleaned"
            /\ UNCHANGED result
       ELSE /\ pc' = "done"
            /\ result' = [kind |-> "raised", exception |-> "KeyError"]
            /\ UNCHANGED df
    /\ UNCHANGED <<data, trends, _sentiment_pipeline, _summarizer_pipeline, pipeline_calls,
                   api, twice>>

\* df = self.clean_data(df); without a raw_text column drop_duplicates raises
\* KeyError and process_complaints returns None
clean_data ==
    /\ pc = "loaded"
    /\ IF "raw_text" \in df.columns
       THEN /\ df' = [columns |-> df.columns \cup {"clean_text"},
                      rows    |-> clean_data_rows(df.rows)]
            /\ pc' = "cleaned"
            /\ UNCHANGED result
       ELSE /\ pc' = "done"
            /\ result' = None
            /\ UNCHANGED df
    /\ UNCHANGED <<data, trends, _sentiment_pipeline, _summarizer_pipeline, pipeline_calls,
                   api, twice>>

\* df = self.classify_complaints(df)
classify_complaints ==
    /\ pc = "cleaned"
    /\ \E cats \in Choices([i \in 1..Len(df.rows) |-> classify_text(df.rows[i].clean_text)]) :
          df' = [columns |-> df.columns \cup {"category"},
                 rows    |-> [i \in 1..Len(df.rows) |->
                                 [df.rows[i] EXCEPT !.category = cats[i]]]]
    /\ pc' = "classified"
    /\ UNCHANGED <<data, trends, result, _sentiment_pipeline, _summarizer_pipeline,
                   pipeline_calls, api, twice>>

\* df = self.analyze_sentiment(df)
analyze_sentiment ==
    /\ pc = "classified"
    /\ \E sentiment_pipeline \in _get_pipeline(_sentiment_pipeline) :
          /\ _sentiment_pipeline' = sentiment_pipeline
          /\ \E sents \in Choices([i \in 1..Len(df.rows) |->
                                      sentiment_of(df.rows[i].clean_text, sentiment_pipeline)]),
                urgs  \in Choices([i \in 1..Len(df.rows) |-> urgency_of(df.rows[i].clean_text)]) :
                /\ df' = [columns |-> df.columns \cup {"sentiment", "urgency"},
                          rows    |-> [i \in 1..Len(df.rows) |->
                                          [df.rows[i] EXCEPT !.sentiment = sents[i],
                                                             !.urgency = urgs[i]]]]
                /\ \E calls \in Choices([i \in 1..Len(df.rows) |->
                                             sentiment_calls(df.rows[i].clean_text,
                                                             sentiment_pipeline, sents[i])]) :
                      pipeline_calls' = [pipeline_calls EXCEPT !.sentiment = calls]
    /\ pc' = "toned"
    /\ UNCHANGED <<data, trends, result, _summarizer_pipeline, api, twice>>

\* extract_trends called on the frame before analyze_sentiment
extract_trends_before_sentiment ==
    /\ pc = "classified"
    /\ \E summarizer \in _get_pipeline(_summarizer_pipeline) :
          /\ _summarizer_pipeline' = summarizer
          /\ \E summary \in summaries(df.rows, summarizer) :
                /\ trends' = [top_recurring_issues |-> recurring_issues(df.rows),
                              weekly_summary       |-> summary]
                /\ pipeline_calls' = [pipeline_calls EXCEPT
                                         !.summarizer = summarizer_calls(df.rows, summarizer, summary)]
    /\ pc' = "trended"
    /\ UNCHANGED <<data, df, result, _sentiment_pipeline, api, twice>>

\* trends = self.extract_trends(df)
extract_trends ==
    /\ pc = "toned"
    /\ \E summarizer \in _get_pipeline(_summarizer_pipeline) :
          /\ _summarizer_pipeline' = summarizer
          /\ \E summary \in summaries(df.rows, summarizer) :
                /\ trends' = [top_recurring_issues |-> recurring_issues(df.rows),
                              weekly_summary       |-> summary]
                /\ pipeline_calls' = [pipeline_calls EXCEPT
                                         !.summarizer = summarizer_calls(df.rows, summarizer, summary)]
    /\ pc' = "trended"
    /\ UNCHANGED <<data, df, result, _sentiment_pipeline, api, twice>>

\* dashboard_data = {...}; return dashboard_data
return_dashboard ==
    /\ pc = "trended"
    /\ result' = dashboard_data(df.rows, trends)
    /\ pc' = "done"
    /\ UNCHANGED <<data, df, trends, _sentiment_pipeline, _summarizer_pipeline,
                   pipeline_calls, api, twice>>

(***************************************************************************)
(* Inputs.                                                                 *)
(***************************************************************************)
fan == <<"f", "a", "n">>

mess == <<"m", "e", "s", "s">>

\* the last complaint of create_sample_data (67 characters):
\* "The AC in the lecture hall 101 is broken. It is a major disruption."
sample_complaint ==
    <<"T", "h", "e", " ", "A", "C", " ", "i", "n", " ", "t", "h",
      "e", " ", "l", "e", "c", "t", "u", "r", "e", " ", "h", "a",
      "l", "l", " ", "1", "0", "1", " ", "i", "s", " ", "b", "r",
      "o", "k", "e", "n", ".", " ", "I", "t", " ", "i", "s", " ",
      "a", " ", "m", "a", "j", "o", "r", " ", "d", "i", "s", "r",
      "u", "p", "t", "i", "o", "n", ".">>

\* the second complaint of create_sample_data (115 characters):
\* "My hostel room fan is not working. I submitted a request last week but no one came.
\* Urgent! The heat is unbearable."
hostel_complaint ==
    <<"M", "y", " ", "h", "o", "s", "t", "e", "l", " ", "r", "o",
      "o", "m", " ", "f", "a", "n", " ", "i", "s", " ", "n", "o",
      "t", " ", "w", "o", "r", "k", "i", "n", "g", ".", " ", "I",
      " ", "s", "u", "b", "m", "i", "t", "t", "e", "d", " ", "a",
      " ", "r", "e", "q", "u", "e", "s", "t", " ", "l", "a", "s",
      "t", " ", "w", "e", "e", "k", " ", "b", "u", "t", " ", "n",
      "o", " ", "o", "n", "e", " ", "c", "a", "m", "e", ".", " ",
      "U", "r", "g", "e", "n", "t", "!", " ", "T", "h", "e", " ",
      "h", "e", "a", "t", " ", "i", "s", " ", "u", "n", "b", "e",
      "a", "r", "a", "b", "l", "e", ".">>

\* the first complaint of create_sample_data (99 characters):
\* "The mess food is awful, it's uncooked and smells bad. Please check the
\* quality control immediately."
mess_complaint ==
    <<"T", "h", "e", " ", "m", "e", "s", "s", " ", "f", "o", "o",
      "d", " ", "i", "s", " ", "a", "w", "f", "u", "l", ",", " ",
      "i", "t", "'", "s", " ", "u", "n", "c", "o", "o", "k", "e",
      "d", " ", "a", "n", "d", " ", "s", "m", "e", "l", "l", "s",
      " ", "b", "a", "d", ".", " ", "P", "l", "e", "a", "s", "e",
      " ", "c", "h", "e", "c", "k", " ", "t", "h", "e", " ", "q",
      "u", "a", "l", "i", "t", "y", " ", "c", "o", "n", "t", "r",
      "o", "l", " ", "i", "m", "m", "e", "d", "i", "a", "t", "e",
      "l", "y", ".">>

\* the third complaint of create_sample_data (87 characters):
\* "I need my grade verified for the Algorithms course. I think there was a
\* clerical error."
grade_complaint ==
    <<"I", " ", "n", "e", "e", "d", " ", "m", "y", " ", "g", "r",
      "a", "d", "e", " ", "v", "e", "r", "i", "f", "i", "e", "d",
      " ", "f", "o", "r", " ", "t", "h", "e", " ", "A", "l", "g",
      "o", "r", "i", "t", "h", "m", "s", " ", "c", "o", "u", "r",
      "s", "e", ".", " ", "I", " ", "t", "h", "i", "n", "k", " ",
      "t", "h", "e", "r", "e", " ", "w", "a", "s", " ", "a", " ",
      "c", "l", "e", "r", "i", "c", "a", "l", " ", "e", "r", "r",
      "o", "r", ".">>

\* a text repeated n times
repeat(text, n) == [i \in 1..(n * Len(text)) |-> text[((i - 1) % Len(text)) + 1]]

\* how many times long_complaint repeats the sample complaint
Repeats == 18

\* a complaint longer than both prefixes the pipelines are given
long_complaint == repeat(hostel_complaint \o <<" ">>, Repeats)

\* the raw_text values of the batches: two texts that differ only before
\* normalisation, and a missing one
RawValues == {Str(<<"F", "a", "n">>), Str(fan \o <<" ">>), NaN}

\* all sequences over S of length 0..n
SeqsUpTo(S, n) == UNION {[1..k -> S] : k \in 0..n}

\* batches of blank texts, of dicts without a raw_text key, of two categories,
\* and some long enough for the summarization model to be called
OtherBatches ==
    {<<Str(<<>>)>>, <<Str(<<" ">>), NaN>>, <<Str(<<" ">>), Str(<<"\t", " ">>)>>,
     <<NoKey>>, <<NoKey, Str(fan)>>,
     <<Str(mess), Str(fan)>>, <<Str(mess), Str(fan), Str(mess)>>,
     <<Str(sample_complaint)>>, <<Str(long_complaint), Str(mess)>>}

Batches == SeqsUpTo(RawValues, MaxBatch) \cup OtherBatches

(***************************************************************************)
(* Spec: any sequence of direct process_complaints calls on one            *)
(* GrievanceSummarizer.                                                    *)
(***************************************************************************)
Init ==
    /\ pc = "idle"
    /\ data = <<>>
    /\ df = NoFrame
    /\ trends = NoTrends
    /\ result = Pending
    /\ _sentiment_pipeline = "None"
    /\ _summarizer_pipeline = "None"
    /\ pipeline_calls = NoCalls
    /\ endpoint = "none"
    /\ request = None
    /\ status = 0
    /\ detail = <<>>
    /\ startup = "pending"
    /\ db_calls = <<>>
    /\ tables = NoRows
    /\ analytics = None
    /\ run = 1
    /\ first = None

Call == \E d \in Batches : process_complaints(d)

Next ==
    \/ Call /\ UNCHANGED <<api, twice>>
    \/ clean_data
    \/ classify_complaints
    \/ analyze_sentiment
    \/ extract_trends
    \/ return_dashboard

Spec == Init /\ [][Next]_vars

(***************************************************************************)
(* Vocabulary of the properties.                                           *)
(***************************************************************************)
\* the raw_text a record of the batch contributes to the frame
raw_of(d, i) == IF d[i].kind = "nokey" THEN NaN ELSE d[i]

\* the positions of the batch that hold the first occurrence of their raw_text
first_occurrences(d) ==
    {i \in 1..Len(d) : \A j \in 1..(i - 1) : raw_of(d, j) # raw_of(d, i)}

\* the k-th smallest element of a set of numbers
kth(S, k) == CHOOSE i \in S : Cardinality({j \in S : j < i}) = k - 1

\* a raw_text without any usable text: missing, empty or whitespace only
is_blank(value) ==
    value.kind # "str" \/ \A i \in 1..Len(value.text) : value.text[i] \in Whitespace

has_dashboard == pc = "done" /\ result.kind = "dashboard"

(***************************************************************************)
(* Properties of Spec.                                                     *)
(***************************************************************************)
\* C1: whenever process_complaints returns a dashboard, the values of
\* complaint_volume_by_category, of sentiment_overview and of
\* urgency_distribution each sum to total_complaints.
C1_CountsSumToTotal ==
    has_dashboard =>
        /\ sum_values(result.complaint_volume_by_category) = result.total_complaints
        /\ sum_values(result.sentiment_overview) = result.total_complaints
        /\ sum_values(result.urgency_distribution) = result.total_complaints

\* a dashboard of two records that share a sentiment and differ in urgency
C1_Witness ==
    /\ has_dashboard
    /\ result.total_complaints = 2
    /\ Cardinality(DOMAIN result.sentiment_overview) = 1
    /\ Cardinality(DOMAIN result.urgency_distribution) = 2

\* C2: clean_data keeps exactly one record per distinct raw_text value
\* (compared before normalisation), namely the first occurrence, the
\* survivors keep their relative order, and total_complaints is the number
\* of survivors.
C2_DedupKeepsFirst ==
    LET firsts == first_occurrences(data)
    IN  /\ "clean_text" \in df.columns =>
            /\ Len(df.rows) = Cardinality(firsts)
            /\ \A k \in 1..Len(df.rows) :
                  df.rows[k].raw_text = raw_of(data, kth(firsts, k))
        /\ has_dashboard => result.total_complaints = Cardinality(firsts)

\* a batch of three records, the third a duplicate of the first, and one of
\* two records that are equal only after normalisation
C2_Witness ==
    /\ has_dashboard
    /\ \/ Len(data) = 3 /\ data[1] = data[3] /\ data[1] # data[2]
             /\ result.total_complaints = 2
       \/ Len(data) = 2 /\ data[1] # data[2]
             /\ df.rows[1].clean_text = df.rows[2].clean_text
             /\ df.rows[1].clean_text # <<>>

\* C6: process_complaints called with an empty sequence of records returns
\* None: no dashboard is produced and no exception escapes.
C6_EmptyBatchReturnsNone ==
    (pc = "done" /\ data = <<>>) => result = None

\* a call with an empty batch has returned
C6_Witness == pc = "done" /\ data = <<>> /\ result = None

Fragments ==
    {<<"F","a","n">>, <<"m","e","s","s">>, <<"g","r","a","d","e">>, <<"f","e","e","s">>,
     <<"O","K">>, <<" ">>, <<"u","r","g","e","n","t">>, <<"g","o","o","d">>}

\* the concatenation of a sequence of texts
RECURSIVE concat(_)
concat(texts) == IF texts = <<>> THEN <<>> ELSE texts[1] \o concat(Tail(texts))

SingleTexts == {concat(fs) : fs \in SeqsUpTo(Fragments, MaxFrags)}

InitSingle ==
    /\ \E t \in SingleTexts :
          /\ data = <<Str(t)>>
          /\ df = DataFrame(<<Str(t)>>)
    /\ pc = "loaded"
    /\ trends = NoTrends
    /\ result = Pending
    /\ _sentiment_pipeline = "None"
    /\ _summarizer_pipeline = "None"
    /\ pipeline_calls = NoCalls
    /\ endpoint = "none"
    /\ request = None
    /\ status = 0
    /\ detail = <<>>
    /\ startup = "pending"
    /\ db_calls = <<>>
    /\ tables = NoRows
    /\ analytics = None
    /\ run = 1
    /\ first = None

NextSingle ==
    \/ clean_data
    \/ classify_complaints
    \/ analyze_sentiment
    \/ extract_trends
    \/ return_dashboard

SpecSingle == InitSingle /\ [][NextSingle]_vars

(***************************************************************************)
(* Properties of SpecSingle.                                               *)
(***************************************************************************)
\* the rule table of the categorizer, in priority order
Rules ==
    <<[category |-> "Hostel",
       keywords |-> {<<"h","o","s","t","e","l">>, <<"r","o","o","m">>, <<"f","a","n">>, <<"w","a","t","e","r">>,
                     <<"w","a","s","h","r","o","o","m">>, <<"l","e","a","k">>, <<"r","o","o","m","m","a","t","e">>}],
      [category |-> "Mess",
       keywords |-> {<<"m","e","s","s">>, <<"f","o","o","d">>, <<"c","h","i","c","k","e","n">>, <<"q","u","a","l","i","t","y">>}],
      [category |-> "Academics",
       keywords |-> {<<"g","r","a","d","e">>, <<"c","o","u","r","s","e">>, <<"p","o","r","t","a","l">>, <<"r","e","g","i","s","t","r","a","t","i","o","n">>}],
      [category |-> "Administration",
       keywords |-> {<<"s","t","a","f","f">>, <<"a","d","m","i","n","i","s","t","r","a","t","i","o","n">>,
                     <<"o","f","f","i","c","e">>, <<"f","e","e","s">>}]>>

\* the first rule of the table with a keyword in the text (0: none)
first_rule(text) ==
    LET hits == {r \in 1..Len(Rules) : \E w \in Rules[r].keywords : Contains(text, w)}
    IN  IF hits = {} THEN 0 ELSE CHOOSE r \in hits : \A q \in hits : r <= q

positive_markers ==
    {<<"t","h","a","n","k">>, <<"g","o","o","d">>, <<"g","r","e","a","t">>, <<"r","e","s","o","l","v","e","d">>}

urgency_markers ==
    {<<"u","r","g","e","n","t">>, <<"i","m","m","e","d","i","a","t","e","l","y">>,
     <<"e","m","e","r","g","e","n","c","y">>, <<"a","s","a","p">>}

timing_phrases ==
    {<<"w","e","e","k">>, <<"d","a","y","s">>, <<"s","t","i","l","l">>}

classified == "category" \in df.columns

toned == "sentiment" \in df.columns

\* C4: the rules are tried in the order Hostel, Mess, Academics,
\* Administration and the first one with a keyword that is a substring of
\* the text gives the category, whatever later rules would match.
C4_FirstMatchingRuleWins ==
    classified =>
        \A k \in 1..Len(df.rows) :
            first_rule(df.rows[k].clean_text) # 0 =>
                df.rows[k].category = Rules[first_rule(df.rows[k].clean_text)].category

\* a text with a Mess keyword followed by a Hostel keyword, classified Hostel
C4_Witness ==
    /\ classified
    /\ \E w \in Rules[2].keywords : \E v \in Rules[1].keywords :
          Contains(df.rows[1].clean_text, w \o v)
    /\ df.rows[1].category = "Hostel"

\* C5 as claimed: a text without any keyword of the four rules is always
\* categorised Hostel.
C5_DefaultIsHostel ==
    classified =>
        \A k \in 1..Len(df.rows) :
            first_rule(df.rows[k].clean_text) = 0 => df.rows[k].category = "Hostel"

\* C5 as the code behaves: a text without any keyword gets one of the four
\* categories, drawn at random: each of the four can be the outcome.
C5_DefaultIsSomeCategory ==
    /\ classified =>
          \A k \in 1..Len(df.rows) :
              first_rule(df.rows[k].clean_text) = 0 =>
                  df.rows[k].category \in {"Hostel", "Mess", "Academics", "Administration"}
    /\ (pc = "cleaned" /\ \A k \in 1..Len(df.rows) : first_rule(df.rows[k].clean_text) = 0) =>
          \A c \in {"Hostel", "Mess", "Academics", "Administration"} :
              ENABLED (classify_complaints /\ \A k \in 1..Len(df.rows) : df'.rows[k].category = c)

\* a non-empty text without keywords that was categorised Administration
C5_Witness ==
    /\ classified
    /\ df.rows[1].clean_text # <<>>
    /\ first_rule(df.rows[1].clean_text) = 0
    /\ df.rows[1].category = "Administration"

\* the sentiment the rule of C9 gives a text
rule_sentiment(text) ==
    IF text = <<>> THEN "Neutral"
    ELSE IF \E w \in positive_markers : Contains(text, w) THEN "Positive"
    ELSE "Negative"

\* the urgency the rule of C10 gives a text
rule_urgency(text) ==
    IF \E w \in urgency_markers : Contains(text, w) THEN "High"
    ELSE IF \E w \in timing_phrases : Contains(text, w) THEN "Medium"
    ELSE "Low"

\* C9 as claimed: without a sentiment model the sentiment follows the rule:
\* Neutral for an empty text, Positive with a positive marker, else Negative.
C9_SentimentByRule ==
    (toned /\ _sentiment_pipeline = "False") =>
        \A k \in 1..Len(df.rows) :
            df.rows[k].sentiment = rule_sentiment(df.rows[k].clean_text)

\* C9 as the code behaves: without a sentiment model every record gets one
\* of Negative, Neutral, Positive, drawn at random whatever its text: each
\* of the three can be the outcome for any text.
C9_SentimentIsSomeLabel ==
    /\ (toned /\ _sentiment_pipeline = "False") =>
          \A k \in 1..Len(df.rows) :
              df.rows[k].sentiment \in {"Negative", "Neutral", "Positive"}
    /\ (pc = "classified" /\ _sentiment_pipeline # "loaded") =>
          \A s \in {"Negative", "Neutral", "Positive"} :
              ENABLED (/\ analyze_sentiment
                       /\ _sentiment_pipeline' = "False"
                       /\ \A k \in 1..Len(df.rows) : df'.rows[k].sentiment = s)

\* without a model, a text with the marker "good" was given Negative
C9_Witness ==
    /\ toned
    /\ _sentiment_pipeline = "False"
    /\ Contains(df.rows[1].clean_text, <<"g", "o", "o", "d">>)
    /\ df.rows[1].sentiment = "Negative"

\* C10 as claimed: urgency is High with an urgency marker, else Medium with
\* a timing phrase, else Low; a record with "urgent" is counted under High.
C10_UrgencyByRule ==
    /\ toned =>
          \A k \in 1..Len(df.rows) :
              df.rows[k].urgency = rule_urgency(df.rows[k].clean_text)
    /\ has_dashboard =>
          \A k \in 1..Len(df.rows) :
              Contains(df.rows[k].clean_text, <<"u", "r", "g", "e", "n", "t">>) =>
                  /\ "High" \in DOMAIN result.urgency_distribution
                  /\ result.urgency_distribution["High"] >= 1

\* C10 as the code behaves: every record gets one of High, Medium, Low,
\* drawn at random whatever its text: each of the three can be the outcome
\* for any text.
C10_UrgencyIsSomeLabel ==
    /\ toned =>
          \A k \in 1..Len(df.rows) : df.rows[k].urgency \in {"High", "Medium", "Low"}
    /\ pc = "classified" =>
          \A u \in {"High", "Medium", "Low"} :
              ENABLED (analyze_sentiment /\ \A k \in 1..Len(df.rows) : df'.rows[k].urgency = u)

\* a text with "urgent" was given Low
C10_Witness ==
    /\ toned
    /\ Contains(df.rows[1].clean_text, <<"u", "r", "g", "e", "n", "t">>)
    /\ df.rows[1].urgency = "Low"

(***************************************************************************)
(* SpecTwice: process_complaints run twice on the same batch by a          *)
(* GrievanceSummarizer whose two model pipelines failed to load (the       *)
(* fallback strategies).                                                   *)
(***************************************************************************)
TwiceValues == {Str(<<"F", "a", "n">>), Str(<<"O", "K">>)}

TwiceBatches == SeqsUpTo(TwiceValues, MaxBatch) \ {<<>>}

\* the dashboard without the per-record list
summary_of(dashboard) ==
    IF dashboard.kind # "dashboard" THEN dashboard
    ELSE [kind                         |-> "summary",
          total_complaints             |-> dashboard.total_complaints,
          complaint_volume_by_category |-> dashboard.complaint_volume_by_category,
          sentiment_overview           |-> dashboard.sentiment_overview,
          urgency_distribution         |-> dashboard.urgency_distribution,
          weekly_summary               |-> dashboard.weekly_summary,
          top_recurring_issues         |-> dashboard.top_recurring_issues]

InitTwice ==
    /\ \E d \in TwiceBatches :
          /\ data = d
          /\ df = DataFrame(d)
    /\ pc = "loaded"
    /\ trends = NoTrends
    /\ result = Pending
    /\ _sentiment_pipeline = "False"
    /\ _summarizer_pipeline = "False"
    /\ pipeline_calls = NoCalls
    /\ endpoint = "none"
    /\ request = None
    /\ status = 0
    /\ detail = <<>>
    /\ startup = "pending"
    /\ db_calls = <<>>
    /\ tables = NoRows
    /\ analytics = None
    /\ run = 1
    /\ first = None

\* the second call, on the batch of the first
Rerun ==
    /\ run = 1
    /\ pc = "done"
    /\ first' = summary_of(result)
    /\ run' = 2
    /\ process_complaints(data)
    /\ UNCHANGED api

NextTwice ==
    \/ clean_data
    \/ classify_complaints
    \/ analyze_sentiment
    \/ extract_trends
    \/ return_dashboard
    \/ Rerun

SpecTwice == InitTwice /\ [][NextTwice]_vars

(***************************************************************************)
(* Properties of SpecTwice.                                                *)
(***************************************************************************)
second_done == run = 2 /\ pc = "done"

\* C3 as claimed: with the fallback strategies two runs on the same batch
\* give the same category, sentiment and urgency counts, the same
\* top_recurring_issues and the same weekly_summary.
C3_SameSummaryTwice ==
    second_done => summary_of(result) = first

\* C3 as the code behaves: the two runs agree on total_complaints and
\* top_recurring_issues, and on the category counts and weekly_summary when
\* every record holds a category keyword; the rest is drawn at random.
C3_SameTrendsTwice ==
    second_done =>
        /\ result.kind = "dashboard"
        /\ first.kind = "summary"
        /\ result.total_complaints = first.total_complaints
        /\ result.top_recurring_issues = first.top_recurring_issues
        /\ (\A k \in 1..Len(df.rows) : first_rule(df.rows[k].clean_text) # 0) =>
              /\ result.complaint_volume_by_category = first.complaint_volume_by_category
              /\ result.weekly_summary = first.weekly_summary

\* two runs on one keyworded record that differ in the sentiment counts
\* and agree on a non-empty top_recurring_issues
C3_Witness ==
    /\ second_done
    /\ \A k \in 1..Len(df.rows) : first_rule(df.rows[k].clean_text) # 0
    /\ result.sentiment_overview # first.sentiment_overview
    /\ result.top_recurring_issues # <<>>
    /\ result.top_recurring_issues = first.top_recurring_issues

(***************************************************************************)
(* SpecApi: the REST handlers of app.py that call process_complaints on    *)
(* the one module-level GrievanceSummarizer without storing anything.  A   *)
(* handler runs up to its call of process_complaints, the stages of the    *)
(* call follow, and the handler then builds its response.  (The handlers   *)
(* that use db_manager are in SpecDb.)                                     *)
(***************************************************************************)
\* raise HTTPException(status_code=code, detail=...)
HTTPException(code, text) == [type |-> "HTTPException", status_code |-> code, detail |-> text]

\* analyze_complaints_batch / analyze_single_complaint /
\* analyze_single_complaint_with_db, `except Exception as e`: every exception
\* raised in the try block, an HTTPException included, is replaced by
\* HTTPException(500, f"Processing error: {str(e)}")
except_Exception(exc) == HTTPException(500, <<"Processing error: ", exc>>)

\* the except clauses of analyze_complaints_csv, in their order
csv_except(exc) ==
    IF exc.type = "EmptyDataError" THEN HTTPException(400, <<"CSV file is empty">>)
    ELSE IF exc.type = "ParserError" THEN HTTPException(400, <<"Invalid CSV format">>)
    ELSE except_Exception(exc)

\* the except clause of demo_analysis
demo_except(exc) == HTTPException(500, <<"Demo processing error: ", exc>>)

\* pd.read_csv(io.StringIO(content)): a frame, or the exception it raises
read_csv(content) ==
    IF content.kind = "empty" THEN [type |-> "EmptyDataError"]
    ELSE IF content.kind = "malformed" THEN [type |-> "ParserError"]
    ELSE [type |-> "frame", columns |-> <<content.header>>, cells |-> content.cells]

\* the column names after the rename of the first column
csv_columns(frame) ==
    IF "raw_text" \notin Range(frame.columns) /\ Len(frame.columns) > 0
    THEN [frame.columns EXCEPT ![1] = "raw_text"]
    ELSE frame.columns

\* @app.on_event("startup"): create_tables() succeeds or raises; the exception
\* is caught and printed, and the app goes on to serve
startup_event ==
    /\ startup = "pending"
    /\ startup' \in {"tables created", "create_tables failed"}
    /\ UNCHANGED <<pc, data, df, trends, result, _sentiment_pipeline, _summarizer_pipeline,
                   pipeline_calls, endpoint, request, status, detail, db_calls, tables, analytics,
                   twice>>

\* the app serves requests once its startup has completed, one at a time
no_request_in_progress ==
    /\ startup \in {"tables created", "create_tables failed"}
    /\ pc \in {"idle", "done"}
    /\ endpoint = "none" \/ status # 0

\* the handler answers with an exception before any call of process_complaints
answer(exc) ==
    /\ status' = exc.status_code
    /\ detail' = exc.detail
    /\ UNCHANGED <<pc, data, df, trends, result, _sentiment_pipeline, _summarizer_pipeline,
                   pipeline_calls>>

\* the handler calls summarizer.process_complaints(data=d)
call_process_complaints(d) ==
    /\ process_complaints(d)
    /\ status' = 0
    /\ detail' = <<>>

\* POST /analyze/batch, up to the call of process_complaints
analyze_complaints_batch(batch) ==
    /\ no_request_in_progress
    /\ endpoint' = "batch"
    /\ request' = [complaints |-> batch]
    /\ db_calls' = <<>>
    /\ LET complaints_data == [i \in 1..Len(batch) |-> Str(batch[i])]
       IN  IF complaints_data = <<>>
           THEN answer(except_Exception(HTTPException(400, <<"No complaints provided">>)))
           ELSE call_process_complaints(complaints_data)
    /\ UNCHANGED <<startup, tables, analytics, twice>>

\* POST /analyze/csv, up to the call of process_complaints
analyze_complaints_csv(file) ==
    /\ no_request_in_progress
    /\ endpoint' = "csv"
    /\ request' = file
    /\ db_calls' = <<>>
    /\ IF ~file.filename_ends_with_csv
       THEN answer(csv_except(HTTPException(400, <<"File must be a CSV">>)))
       ELSE LET frame == read_csv(file.content)
            IN  IF frame.type # "frame"
                THEN answer(csv_except(frame))
                ELSE IF "raw_text" \notin Range(csv_columns(frame))
                THEN answer(csv_except(HTTPException(400, <<"CSV must contain 'raw_text' column">>)))
                ELSE IF frame.cells = <<>>
                THEN answer(csv_except(HTTPException(400, <<"No valid complaints found in CSV">>)))
                ELSE call_process_complaints(frame.cells)
    /\ UNCHANGED <<startup, tables, analytics, twice>>

\* analyze_single_complaint storing the complaint with
\* db_manager.insert_grievance before it is processed
analyze_single_complaint_storing(text) ==
    /\ no_request_in_progress
    /\ endpoint' = "single"
    /\ request' = [raw_text |-> text]
    /\ db_calls' = <<[op |-> "insert_grievance", outcome |-> "returns"]>>
    /\ call_process_complaints(<<Str(text)>>)
    /\ UNCHANGED <<startup, tables, analytics, twice>>

\* POST /analyze/single, up to the call of process_complaints
analyze_single_complaint(text) ==
    /\ no_request_in_progress
    /\ endpoint' = "single"
    /\ request' = [raw_text |-> text]
    /\ db_calls' = <<>>
    /\ call_process_complaints(<<Str(text)>>)
    /\ UNCHANGED <<startup, tables, analytics, twice>>

\* the first records of create_sample_data()
create_sample_data == <<Str(mess_complaint), Str(hostel_complaint), Str(grade_complaint)>>

\* how many of the sample records the batch of GET /demo holds
DemoRecords == 2

\* GET /demo, up to the call of process_complaints
demo_analysis ==
    /\ no_request_in_progress
    /\ endpoint' = "demo"
    /\ request' = None
    /\ db_calls' = <<>>
    /\ call_process_complaints(SubSeq(create_sample_data, 1, DemoRecords))
    /\ UNCHANGED <<startup, tables, analytics, twice>>

\* what a call of db_manager can do: psycopg2 connects and executes, or raises
DbOutcomes == {"returns", "raises"}

OperationalError == [type |-> "OperationalError"]

\* the rest of a handler, once process_complaints has returned: a falsy
\* result raises HTTPException(500), which leaves the handler as `raised`
\* through its except clause; any other result is returned (200)
respond(name, raised) ==
    /\ endpoint = name
    /\ status = 0
    /\ pc = "done"
    /\ status' = IF result = None THEN raised.status_code ELSE 200
    /\ detail' = IF result = None THEN raised.detail ELSE <<>>
    /\ UNCHANGED <<pc, data, df, trends, result, _sentiment_pipeline, _summarizer_pipeline,
                   pipeline_calls, endpoint, request, startup, db_calls, tables, analytics,
                   twice>>

respond_batch ==
    respond("batch", except_Exception(HTTPException(500, <<"Failed to process complaints">>)))

respond_csv ==
    respond("csv", csv_except(HTTPException(500, <<"Failed to process complaints">>)))

respond_single ==
    respond("single", except_Exception(HTTPException(500, <<"Failed to process complaint">>)))

respond_demo ==
    respond("demo", demo_except(HTTPException(500, <<"Failed to process demo data">>)))

\* what analyze_single_complaint_with_db raises when process_complaints gave
\* no result, as it leaves the handler
analysis_failure == except_Exception(HTTPException(500, <<"Failed to process complaint">>))

\* the same for an exception of a db_manager call
persistence_failure == except_Exception(OperationalError)

\* the texts of the requests
ApiTexts == {fan, mess}

\* the uploaded files: name ending in .csv or not; no bytes, unparsable, or
\* a one-column table
CsvContents ==
    {[kind |-> "empty"], [kind |-> "malformed"]}
    \cup {[kind |-> "table", header |-> h, cells |-> c] :
             h \in {"raw_text", "complaint"},
             c \in {<<>>, <<Str(fan)>>, <<Str(mess), Str(fan)>>}}

Uploads == [filename_ends_with_csv : BOOLEAN, content : CsvContents]

NextApi ==
    \/ startup_event
    \/ \E batch \in SeqsUpTo(ApiTexts, MaxBatch) : analyze_complaints_batch(batch)
    \/ \E file \in Uploads : analyze_complaints_csv(file)
    \/ \E text \in ApiTexts \cup {<<>>} : analyze_single_complaint(text)
    \/ demo_analysis
    \/ clean_data
    \/ classify_complaints
    \/ analyze_sentiment
    \/ extract_trends
    \/ return_dashboard
    \/ respond_batch
    \/ respond_csv
    \/ respond_single
    \/ respond_demo

SpecApi == Init /\ [][NextApi]_vars

(***************************************************************************)
(* SpecDb: the REST handlers of app.py that use db_manager, on the tables  *)
(* user_grievances and analysis_results.  Every db_manager method opens    *)
(* its own connection (`with self.get_connection() as conn`), so each call *)
(* is a transaction of its own: committed when it returns, rolled back     *)
(* when it raises.                                                         *)
(***************************************************************************)
\* how many grievances the table user_grievances can hold
MaxRows == 2

\* INSERT INTO user_grievances (raw_text, ...) RETURNING id
insert_grievance(t, raw_text) ==
    [t EXCEPT !.user_grievances =
        Append(@, [id |-> Len(@) + 1, raw_text |-> raw_text])]

\* INSERT INTO analysis_results (grievance_id, category, sentiment, urgency,
\* clean_text, ...) RETURNING id
insert_analysis_result(t, grievance_id, analysis_data) ==
    [t EXCEPT !.analysis_results =
        Append(@, [id           |-> Len(@) + 1,
                   grievance_id |-> grievance_id,
                   category     |-> analysis_data.category,
                   sentiment    |-> analysis_data.sentiment,
                   urgency      |-> analysis_data.urgency,
                   clean_text   |-> analysis_data.clean_text])]

\* get_grievance_stats: COUNT(*) of user_grievances, and the GROUP BY counts
\* of analysis_results
get_grievance_stats(t) ==
    [total      |-> Len(t.user_grievances),
     categories |-> value_counts(t.analysis_results, "category"),
     sentiments |-> value_counts(t.analysis_results, "sentiment"),
     urgencies  |-> value_counts(t.analysis_results, "urgency")]

\* dict.get(key, 0)
get_or_zero(counts, key) == IF key \in DOMAIN counts THEN counts[key] ELSE 0

\* sorted(stats['categories'].items(), key=lambda x: x[1], reverse=True):
\* the categories by descending count; the sort is stable and GROUP BY fixes
\* no order of its rows, so equal counts can come in any order
category_items(counts) ==
    {order \in [1..Cardinality(DOMAIN counts) -> DOMAIN counts] :
        /\ \A i, j \in DOMAIN order : i # j => order[i] # order[j]
        /\ \A i, j \in DOMAIN order : i < j => counts[order[i]] >= counts[order[j]]}

\* POST /analyze/single/db, up to the call of process_complaints:
\* db_manager.insert_grievance comes first and commits its row
analyze_single_complaint_with_db(text) ==
    /\ no_request_in_progress
    /\ Len(tables.user_grievances) < MaxRows
    /\ endpoint' = "single_db"
    /\ request' = [raw_text |-> text]
    /\ \E outcome \in DbOutcomes :
          /\ db_calls' = <<[op |-> "insert_grievance", outcome |-> outcome]>>
          /\ IF outcome = "raises"
             THEN /\ answer(except_Exception(OperationalError))
                  /\ UNCHANGED tables
             ELSE /\ call_process_complaints(<<Str(text)>>)
                  /\ tables' = insert_grievance(tables, text)
    /\ UNCHANGED <<startup, analytics, twice>>

\* the rest of analyze_single_complaint_with_db: without a result the
\* HTTPException(500) is raised; else db_manager.insert_analysis_result is
\* called with the id insert_grievance returned, and the analysis is
\* returned (200) unless that call raises
respond_single_db ==
    /\ endpoint = "single_db"
    /\ status = 0
    /\ pc = "done"
    /\ IF result = None \/ result.processed_complaints = <<>>
       THEN /\ status' = analysis_failure.status_code
            /\ detail' = analysis_failure.detail
            /\ UNCHANGED <<db_calls, tables>>
       ELSE \E outcome \in DbOutcomes :
               LET grievance_id  == tables.user_grievances[Len(tables.user_grievances)].id
                   analysis_data == result.processed_complaints[1]
               IN  /\ db_calls' = Append(db_calls, [op |-> "insert_analysis_result",
                                                    outcome |-> outcome])
                   /\ status' = IF outcome = "raises" THEN persistence_failure.status_code ELSE 200
                   /\ detail' = IF outcome = "raises" THEN persistence_failure.detail ELSE <<>>
                   /\ tables' = IF outcome = "raises" THEN tables
                                ELSE insert_analysis_result(tables, grievance_id, analysis_data)
    /\ UNCHANGED <<pc, data, df, trends, result, _sentiment_pipeline, _summarizer_pipeline,
                   pipeline_calls, endpoint, request, startup, analytics, twice>>

\* the rows of get_all_grievances_with_analysis for the grievances
\* 1..n: user_grievances LEFT JOIN analysis_results ON g.id = a.grievance_id
\* ORDER BY g.submitted_at DESC; a grievance without analysis gets one row
\* whose analysis columns are NULL
RECURSIVE left_join(_, _)
left_join(t, n) ==
    IF n = 0 THEN <<>>
    ELSE LET g        == t.user_grievances[n]
             analyses == SelectSeq(t.analysis_results, LAMBDA a : a.grievance_id = g.id)
             rows     == IF analyses = <<>>
                         THEN <<[id |-> g.id, raw_text |-> g.raw_text, clean_text |-> "NULL",
                                 category |-> "NULL", sentiment |-> "NULL", urgency |-> "NULL"]>>
                         ELSE [k \in 1..Len(analyses) |->
                                  [id         |-> g.id,
                                   raw_text   |-> g.raw_text,
                                   clean_text |-> analyses[k].clean_text,
                                   category   |-> analyses[k].category,
                                   sentiment  |-> analyses[k].sentiment,
                                   urgency    |-> analyses[k].urgency]]
         IN  rows \o left_join(t, n - 1)

get_all_grievances_with_analysis(t) == left_join(t, Len(t.user_grievances))

\* what get_database_analytics returns for the statistics, the joined rows
\* and one order of the categories
DashboardResponse(stats, recent_grievances, items) ==
    LET top_recurring_issues == SubSeq(items, 1, IF Len(items) < 5 THEN Len(items) ELSE 5)
    IN  [kind                         |-> "dashboard",
         total_complaints             |-> stats.total,
         complaint_volume_by_category |-> stats.categories,
         sentiment_overview           |-> stats.sentiments,
         urgency_distribution         |-> stats.urgencies,
         weekly_summary               |->
             [total              |-> stats.total,
              negative_count     |-> get_or_zero(stats.sentiments, "negative"),
              high_urgency_count |-> get_or_zero(stats.urgencies, "high"),
              top_categories     |->
                  SubSeq(top_recurring_issues, 1,
                         IF Len(top_recurring_issues) < 3 THEN Len(top_recurring_issues) ELSE 3)],
         top_recurring_issues         |-> top_recurring_issues,
         processed_complaints         |->
             SelectSeq(recent_grievances, LAMBDA grievance : grievance.category # "NULL")]

\* GET /analytics/db: db_manager.get_grievance_stats, then
\* db_manager.get_all_grievances_with_analysis, then the response; when a
\* call of db_manager raises, HTTPException(500, "Database error: ...")
get_database_analytics ==
    /\ no_request_in_progress
    /\ endpoint' = "analytics_db"
    /\ request' = None
    /\ \E first_call, second_call \in DbOutcomes :
          /\ db_calls' =
                IF first_call = "raises"
                THEN <<[op |-> "get_grievance_stats", outcome |-> "raises"]>>
                ELSE <<[op |-> "get_grievance_stats", outcome |-> "returns"],
                       [op |-> "get_all_grievances_with_analysis", outcome |-> second_call]>>
          /\ IF first_call = "raises" \/ second_call = "raises"
             THEN /\ status' = 500
                  /\ detail' = <<"Database error: ", OperationalError>>
                  /\ analytics' = None
             ELSE \E items \in category_items(get_grievance_stats(tables).categories) :
                     /\ status' = 200
                     /\ detail' = <<>>
                     /\ analytics' = DashboardResponse(get_grievance_stats(tables),
                                                       get_all_grievances_with_analysis(tables),
                                                       items)
    /\ UNCHANGED <<pc, data, df, trends, result, _sentiment_pipeline, _summarizer_pipeline,
                   pipeline_calls, startup, tables, twice>>

\* the texts of the stored complaints
DbTexts == {fan, <<>>}

NextDb ==
    \/ startup_event
    \/ \E text \in DbTexts : analyze_single_complaint_with_db(text)
    \/ clean_data
    \/ classify_complaints
    \/ analyze_sentiment
    \/ extract_trends
    \/ return_dashboard
    \/ respond_single_db
    \/ get_database_analytics

SpecDb == Init /\ [][NextDb]_vars

(***************************************************************************)
(* Properties of SpecApi.                                                  *)
(***************************************************************************)
\* the request carries no input
no_input ==
    \/ endpoint = "batch" /\ request.complaints = <<>>
    \/ endpoint = "csv" /\ ~request.filename_ends_with_csv
    \/ endpoint = "csv" /\ request.content.kind = "empty"
    \/ endpoint = "csv" /\ request.content.kind = "table" /\ request.content.cells = <<>>

\* C8: a submission without input (POST /analyze/batch with an empty list,
\* POST /analyze/csv with a non-CSV file or a CSV without rows) is answered
\* with a 4xx status code, not a 5xx.
C8_NoInputIs4xx ==
    (status # 0 /\ no_input) => (status >= 400 /\ status <= 499)

(***************************************************************************)
(* Properties of the pipeline calls (Spec).                                *)
(***************************************************************************)
\* the sentiment column was computed by get_sentiment (the model strategy)
model_strategy == toned /\ _sentiment_pipeline = "loaded"

\* the sentiment pipeline's calls for row i of the frame
calls_of_row(i) == pipeline_calls.sentiment[i]

\* C11: under the model strategy a record with an empty clean_text is
\* Neutral and causes no pipeline call; every other record causes exactly
\* one call, on the first 250 characters of its clean_text, and is Neutral
\* when that call raised and the capitalised label of its own call
\* otherwise, whatever the calls of the other records did; the call that
\* completes returns a dashboard.
C11_NeutralOnEmptyOrFailure ==
    model_strategy =>
        /\ Len(pipeline_calls.sentiment) = Len(df.rows)
        /\ \A i \in 1..Len(df.rows) :
              LET text == df.rows[i].clean_text
                  m    == IF Len(text) < 250 THEN Len(text) ELSE 250
              IN  IF text = <<>>
                  THEN calls_of_row(i) = <<>> /\ df.rows[i].sentiment = "Neutral"
                  ELSE /\ Len(calls_of_row(i)) = 1
                       /\ calls_of_row(i)[1].arg = [k \in 1..m |-> text[k]]
                       /\ df.rows[i].sentiment =
                             CASE calls_of_row(i)[1].outcome = "raises" -> "Neutral"
                               [] calls_of_row(i)[1].outcome = "NEGATIVE" -> "Negative"
                               [] calls_of_row(i)[1].outcome = "POSITIVE" -> "Positive"
        /\ pc = "done" => result.kind = "dashboard"

\* a dashboard of two records under the model strategy: one longer than 250
\* characters whose call raised, and one whose call returned
C11_Witness ==
    /\ has_dashboard
    /\ model_strategy
    /\ Len(df.rows) = 2
    /\ Len(df.rows[1].clean_text) > 250
    /\ Len(calls_of_row(1)[1].arg) = 250
    /\ calls_of_row(1)[1].outcome = "raises" /\ df.rows[1].sentiment = "Neutral"
    /\ calls_of_row(2)[1].outcome = "POSITIVE" /\ df.rows[2].sentiment = "Positive"

\* the batch has a record with a raw_text key (a frame with a raw_text column)
has_raw_text == \E i \in 1..Len(data) : data[i].kind # "nokey"

\* C15: whatever loading and calling the two pipelines did, a call on a
\* batch with a raw_text column returns a dashboard; when the summarizer
\* could not be loaded or its call raised, weekly_summary is the template
\* summary of the batch; and every summarizer call was given the first 2000
\* characters of the joined clean texts.
C15_PipelineFailureGivesFallback ==
    /\ (pc = "done" /\ has_raw_text) => result.kind = "dashboard"
    /\ has_dashboard =>
          LET calls         == pipeline_calls.summarizer
              combined_text == join([i \in 1..Len(df.rows) |-> df.rows[i].clean_text])
              m             == IF Len(combined_text) < 2000 THEN Len(combined_text) ELSE 2000
          IN  /\ (_summarizer_pipeline = "False" \/ \E k \in 1..Len(calls) : calls[k].outcome = "raises")
                    => /\ result.weekly_summary.kind = "fallback"
                       /\ result.weekly_summary.complaints = Len(df.rows)
              /\ \A k \in 1..Len(calls) : calls[k].arg = [c \in 1..m |-> combined_text[c]]

\* the sentiment pipeline failed to load, the summarizer was called on a text
\* longer than 2000 characters and raised
C15_Witness ==
    /\ has_dashboard
    /\ _sentiment_pipeline = "False"
    /\ Len(join([i \in 1..Len(df.rows) |-> df.rows[i].clean_text])) > 2000
    /\ Len(pipeline_calls.summarizer) = 1
    /\ Len(pipeline_calls.summarizer[1].arg) = 2000
    /\ pipeline_calls.summarizer[1].outcome = "raises"
    /\ result.weekly_summary.kind = "fallback"

(***************************************************************************)
(* SpecTrends: extract_trends applied to a classified and toned frame.     *)
(* The frames are those process_complaints builds from batches of distinct *)
(* normalised texts, and the empty frame (extract_trends is a public       *)
(* method and accepts it).                                                 *)
(***************************************************************************)
water_leak == <<"w","a","t","e","r"," ","l","e","a","k"," ","w","a","t","e","r"," ","l","e","a","k">>

leak_issue == <<"l","e","a","k"," ","i","s","s","u","e">>

room_fan == <<"r","o","o","m"," ","f","a","n"," ","r","o","o","m"," ","f","a","n"," ",
              "f","o","o","d"," ","m","e","s","s">>

\* clean texts: with repeated words, with four different words, of stopwords
\* only, of short words only, with an underscore word, of one category each
TrendTexts ==
    {water_leak, leak_issue, room_fan,
     <<"t","h","e"," ","a","n","d">>,
     <<"o","k"," ","g","o">>,
     <<"t","h","e"," ","f","a","n"," ","i","s"," ","o","k"," ","a","_","b">>,
     <<"m","e","s","s"," ","f","o","o","d">>,
     fan}

\* sequences without repetition: clean_data has dropped the duplicates
TrendBatches == {b \in SeqsUpTo(TrendTexts, MaxBatch) : \A i, j \in 1..Len(b) : i # j => b[i] # b[j]}

InitTrends ==
    /\ \E b \in TrendBatches :
          /\ data = [i \in 1..Len(b) |-> Str(b[i])]
          /\ \E cats \in Choices([i \in 1..Len(b) |-> classify_text(b[i])]) :
                df = [columns |-> {"raw_text", "clean_text", "category", "sentiment", "urgency"},
                      rows    |-> [i \in 1..Len(b) |->
                                      [raw_text   |-> Str(b[i]),
                                       clean_text |-> clean_text(Str(b[i])),
                                       category   |-> cats[i],
                                       sentiment  |-> "Negative",
                                       urgency    |-> "Medium"]]]
          /\ pipeline_calls = [sentiment |-> [i \in 1..Len(b) |-> <<>>], summarizer |-> <<>>]
    /\ pc = "toned"
    /\ trends = NoTrends
    /\ result = Pending
    /\ _sentiment_pipeline = "False"
    /\ _summarizer_pipeline = "None"
    /\ endpoint = "none"
    /\ request = None
    /\ status = 0
    /\ detail = <<>>
    /\ startup = "pending"
    /\ db_calls = <<>>
    /\ tables = NoRows
    /\ analytics = None
    /\ run = 1
    /\ first = None

NextTrends == extract_trends

SpecTrends == InitTrends /\ [][NextTrends]_vars

(***************************************************************************)
(* Properties of SpecTrends.                                               *)
(***************************************************************************)
\* the tokens of the concatenated clean texts that pass the filter, in order
trend_tokens ==
    filtered_words(_tokenize(join([i \in 1..Len(df.rows) |-> df.rows[i].clean_text])))

\* number of occurrences of a token, and the position of its first one
occurrences(w) == Cardinality({i \in 1..Len(trend_tokens) : trend_tokens[i] = w})

first_position(w) ==
    CHOOSE i \in 1..Len(trend_tokens) :
        trend_tokens[i] = w /\ \A j \in 1..(i - 1) : trend_tokens[j] # w

\* v is ranked before w: more occurrences, or as many and an earlier first one
ranked_before(v, w) ==
    \/ occurrences(v) > occurrences(w)
    \/ occurrences(v) = occurrences(w) /\ first_position(v) < first_position(w)

\* the token an entry of top_recurring_issues reports
token_of(issue) == lower(issue.topic)

trended == pc = "trended"

\* C12: top_recurring_issues has at most 3 entries; each reports a token of
\* the concatenated clean texts with its number of occurrences; the entries
\* are in order of descending count, equal counts in order of first
\* occurrence; and every token left out is ranked after all entries.
C12_TopThreeByCountThenFirstOccurrence ==
    trended =>
        LET issues == trends.top_recurring_issues
        IN  /\ Len(issues) <= 3
            /\ \A i \in 1..Len(issues) :
                  /\ token_of(issues[i]) \in Range(trend_tokens)
                  /\ issues[i].mentioned = occurrences(token_of(issues[i]))
            /\ \A i, j \in 1..Len(issues) :
                  i < j => ranked_before(token_of(issues[i]), token_of(issues[j]))
            /\ \A w \in Range(trend_tokens) :
                  (\A i \in 1..Len(issues) : token_of(issues[i]) # w)
                      => /\ Len(issues) = 3
                         /\ \A i \in 1..Len(issues) : ranked_before(token_of(issues[i]), w)

\* "water leak water leak" and "leak issue": Leak 3, Water 2, Issue 1
C12_Witness ==
    /\ trended
    /\ Len(df.rows) = 2
    /\ df.rows[1].clean_text = water_leak /\ df.rows[2].clean_text = leak_issue
    /\ trends.top_recurring_issues =
          <<[topic |-> <<"L","e","a","k">>, mentioned |-> 3],
            [topic |-> <<"W","a","t","e","r">>, mentioned |-> 2],
            [topic |-> <<"I","s","s","u","e">>, mentioned |-> 1]>>

Digits == {"0", "1", "2", "3", "4", "5", "6", "7", "8", "9"}

\* C13: every token reported in top_recurring_issues consists of letters and
\* digits only, is longer than 2 characters, is not a stopword and occurs in
\* the clean_text of some record; on an empty frame, or when no token
\* passes the filter, extract_trends returns the empty sequence as
\* top_recurring_issues.
C13_ReportedTokensPassFilter ==
    trended =>
        LET issues == trends.top_recurring_issues
        IN  /\ \A i \in 1..Len(issues) :
                  LET w == token_of(issues[i])
                  IN  /\ \A k \in 1..Len(w) : w[k] \in Range(Lowers) \cup Digits
                      /\ Len(w) > 2
                      /\ w \notin stopwords
                      /\ \E r \in 1..Len(df.rows) : Contains(df.rows[r].clean_text, w)
            /\ (df.rows = <<>> \/ trend_tokens = <<>>) => issues = <<>>

\* extract_trends has returned on "the and" and "ok go", of which no token
\* passes the filter
C13_Witness ==
    /\ trended
    /\ Len(df.rows) = 2
    /\ Len(_tokenize(df.rows[1].clean_text)) = 2
    /\ Len(_tokenize(df.rows[2].clean_text)) = 2
    /\ trend_tokens = <<>>
    /\ trends.top_recurring_issues = <<>>

\* the rows in another order
permuted(rows, p) == [i \in 1..Len(rows) |-> rows[p[i]]]

\* C14: the template fallback summary names the number of records of the
\* batch and a most frequent category of it, and a batch with the same
\* records in another order (the same record count and the same count per
\* category) gets the same summary.
C14_SummaryFromDistribution ==
    (trended /\ trends.weekly_summary.kind = "fallback") =>
        LET summary == trends.weekly_summary
            counts  == [c \in Range(categories) |->
                           Cardinality({i \in 1..Len(df.rows) : df.rows[i].category = c})]
        IN  /\ summary.complaints = Len(df.rows)
            /\ df.rows # <<>> =>
                  \E c \in Range(categories) :
                      /\ summary.category = lower_label(c)
                      /\ \A c2 \in Range(categories) : counts[c2] <= counts[c]
            /\ \A p \in Permutations(1..Len(df.rows)) :
                  _generate_fallback_summary(permuted(df.rows, p)) = summary

(***************************************************************************)
(* Properties of the REST handlers with and without db_manager (SpecApi)   *)
(***************************************************************************)
\* some call of db_manager raised during the request
persistence_failed == \E k \in 1..Len(db_calls) : db_calls[k].outcome = "raises"

\* what tells one kind of error response from another: the status code and
\* the fixed part of the detail
error_class(code, text) == <<code, IF text = <<>> THEN "" ELSE text[1]>>

\* C16: in POST /analyze/single/db a failure of insert_grievance or of
\* insert_analysis_result is reported to the caller as an error class
\* distinct from the one reported when process_complaints gave no result.
C16_PersistenceFailureIsDistinct ==
    (endpoint = "single_db" /\ status # 0 /\ persistence_failed)
        => error_class(status, detail)
               # error_class(analysis_failure.status_code, analysis_failure.detail)

(***************************************************************************)
(* Further properties of Spec.                                             *)
(***************************************************************************)
\* C17: a raw record whose raw_text is missing or null is normalised to the
\* clean_text "" and its batch is processed to a dashboard rather than
\* failing; for every other record clean_text is the lowercased raw_text
\* without leading and trailing whitespace, with nothing else changed.
C17_MissingTextIsEmptyText ==
    (pc = "done" /\ data # <<>>) =>
        /\ has_dashboard
        /\ \A k \in 1..Len(result.processed_complaints) :
              LET record == result.processed_complaints[k]
              IN  record.clean_text = IF record.raw_text.kind = "str"
                                      THEN strip(lower(record.raw_text.text))
                                      ELSE <<>>

\* C18: in every dashboard process_complaints returns, with the sentiment
\* model and with the random fallback, each processed record has its
\* category in {Hostel, Mess, Academics, Administration}, its sentiment in
\* {Negative, Neutral, Positive} and its urgency in {High, Medium, Low}, and
\* every key of the three count mappings is a label of the corresponding set.
C18_LabelsWithinSets ==
    has_dashboard =>
        /\ \A k \in 1..Len(result.processed_complaints) :
              LET record == result.processed_complaints[k]
              IN  /\ record.category \in {"Hostel", "Mess", "Academics", "Administration"}
                  /\ record.sentiment \in {"Negative", "Neutral", "Positive"}
                  /\ record.urgency \in {"High", "Medium", "Low"}
        /\ DOMAIN result.complaint_volume_by_category
               \subseteq {"Hostel", "Mess", "Academics", "Administration"}
        /\ DOMAIN result.sentiment_overview \subseteq {"Negative", "Neutral", "Positive"}
        /\ DOMAIN result.urgency_distribution \subseteq {"High", "Medium", "Low"}

\* a dashboard made with the sentiment model: a record the model labelled,
\* and a record without text whose category was drawn at random
C18_Witness ==
    /\ has_dashboard
    /\ _sentiment_pipeline = "loaded"
    /\ result.total_complaints = 2
    /\ result.processed_complaints[1].sentiment = "Positive"
    /\ result.processed_complaints[2].clean_text = <<>>
    /\ result.processed_complaints[2].category = "Administration"
    /\ DOMAIN result.sentiment_overview = {"Positive", "Neutral"}
    /\ DOMAIN result.urgency_distribution = {"High", "Low"}

(***************************************************************************)
(* Further properties of SpecApi.                                          *)
(***************************************************************************)
\* the endpoints that analyse without storing
analysis_endpoints == {"batch", "single", "demo"}

\* the app has started although create_tables() raised, and is not busy
serving_without_tables ==
    /\ startup = "create_tables failed"
    /\ pc \in {"idle", "done"}
    /\ endpoint = "none" \/ status # 0

\* C19: POST /analyze/batch, POST /analyze/single and GET /demo return their
\* result without any call of db_manager, and when create_tables() failed at
\* startup they are served all the same: the request is accepted and its
\* analysis is returned.
C19_AnalysisWithoutPersistence ==
    /\ endpoint \in analysis_endpoints => db_calls = <<>>
    /\ serving_without_tables =>
          /\ ENABLED demo_analysis
          /\ \A text \in ApiTexts : ENABLED analyze_single_complaint(text)
          /\ \A batch \in SeqsUpTo(ApiTexts, MaxBatch) : ENABLED analyze_complaints_batch(batch)
    /\ (startup = "create_tables failed" /\ endpoint \in analysis_endpoints /\ status # 0
           /\ ~no_input)
          => status = 200 /\ result.kind = "dashboard"

\* GET /demo answered with its dashboard after create_tables() had failed
C19_Witness ==
    /\ startup = "create_tables failed"
    /\ endpoint = "demo"
    /\ status = 200
    /\ result.kind = "dashboard"
    /\ result.total_complaints = DemoRecords
    /\ db_calls = <<>>

(***************************************************************************)
(* The order of the stages within one call (Spec).                         *)
(***************************************************************************)
\* the stage the records of the frame are in: 1 Raw, 2 Normalized,
\* 3 Categorized, 4 Toned
record_stage ==
    IF {"sentiment", "urgency"} \subseteq df.columns THEN 4
    ELSE IF "category" \in df.columns THEN 3
    ELSE IF "clean_text" \in df.columns THEN 2
    ELSE 1

\* the columns the stages assign
assigned_columns == df.columns \cap {"clean_text", "category", "sentiment", "urgency"}

\* every record of the frame has been categorized and toned
all_categorized_and_toned ==
    /\ record_stage = 4
    /\ \A k \in 1..Len(df.rows) :
          /\ df.rows[k].category # Unset
          /\ df.rows[k].sentiment # Unset
          /\ df.rows[k].urgency # Unset

\* C20: within one process_complaints call the records go through the
\* stages Raw, Normalized, Categorized, Toned in that order; a clean_text,
\* category, sentiment or urgency value is never changed once assigned; and
\* trend extraction, summary building and the aggregation of the counts
\* start only after every record of the batch has been categorized and
\* toned.
C20_StagesInOrder ==
    [][IF pc \in {"idle", "done"}
       THEN record_stage' = 1
       ELSE /\ record_stage' \in {record_stage, record_stage + 1}
            /\ record_stage' = record_stage + 1
                  => <<pc, pc'>> \in {<<"loaded", "cleaned">>, <<"cleaned", "classified">>,
                                      <<"classified", "toned">>}
            /\ record_stage >= 2 =>
                  /\ Len(df'.rows) = Len(df.rows)
                  /\ \A k \in 1..Len(df.rows) :
                        /\ df'.rows[k].raw_text = df.rows[k].raw_text
                        /\ \A col \in assigned_columns : df'.rows[k][col] = df.rows[k][col]
            /\ trends' # trends => all_categorized_and_toned
            /\ result'.kind = "dashboard" =>
                  /\ all_categorized_and_toned
                  /\ pc = "trended"
                  /\ result'.processed_complaints = df.rows
      ]_vars

\* a dashboard of two records out of a batch of three, all stages done
C20_Witness ==
    /\ has_dashboard
    /\ Len(data) = 3
    /\ result.total_complaints = 2
    /\ all_categorized_and_toned
    /\ result.processed_complaints = df.rows
    /\ result.top_recurring_issues # <<>>

(***************************************************************************)
(* The cached pipeline handles over a sequence of calls (Spec).            *)
(***************************************************************************)
\* C21: over any sequence of process_complaints calls on one
\* GrievanceSummarizer each pipeline is initialised at most once, on first
\* use: a handle changes only by leaving "None" (the load, in the stage that
\* first uses the pipeline), and once it is "loaded" or "False" it never
\* changes again, so no later call loads again.
C21_HandlesInitialisedOnce ==
    [][/\ _sentiment_pipeline' # _sentiment_pipeline
          => /\ _sentiment_pipeline = "None"
             /\ _sentiment_pipeline' \in {"loaded", "False"}
             /\ pc = "classified" /\ pc' = "toned"
       /\ _summarizer_pipeline' # _summarizer_pipeline
          => /\ _summarizer_pipeline = "None"
             /\ _summarizer_pipeline' \in {"loaded", "False"}
             /\ pc = "toned" /\ pc' = "trended"
      ]_vars

\* a later call has passed analyze_sentiment with the handles an earlier call
\* left: the sentiment load had failed, the summarizer had loaded
C21_Witness ==
    /\ pc = "toned"
    /\ _sentiment_pipeline = "False"
    /\ _summarizer_pipeline = "loaded"
    /\ pipeline_calls.summarizer = <<>>
    /\ Len(df.rows) = 2

(***************************************************************************)
(* SpecBlocking: process_complaints with pipeline calls that may never     *)
(* return.  The calls are plain synchronous calls; a call that does not    *)
(* return leaves process_complaints inside the stage that made it.         *)
(***************************************************************************)
\* get_sentiment calls sentiment_pipeline(text[:250]) for a row with text,
\* and the call never returns
sentiment_call_never_returns ==
    /\ pc = "classified"
    /\ \E sentiment_pipeline \in _get_pipeline(_sentiment_pipeline) :
          /\ sentiment_pipeline = "loaded"
          /\ _sentiment_pipeline' = sentiment_pipeline
          /\ \E i \in 1..Len(df.rows) :
                /\ df.rows[i].clean_text # <<>>
                /\ pipeline_calls' =
                      [pipeline_calls EXCEPT
                          !.sentiment = [k \in 1..Len(df.rows) |->
                                            IF k = i
                                            THEN <<[arg     |-> sentiment_input(df.rows[i].clean_text),
                                                    outcome |-> "never returns"]>>
                                            ELSE <<>>]]
    /\ pc' = "blocked"
    /\ UNCHANGED <<data, df, trends, result, _summarizer_pipeline, api, twice>>

\* extract_trends calls summarizer(combined_text[:2000], ...), and the call
\* never returns
summarizer_call_never_returns ==
    /\ pc = "toned"
    /\ \E summarizer \in _get_pipeline(_summarizer_pipeline) :
          /\ summarizer = "loaded"
          /\ _summarizer_pipeline' = summarizer
          /\ LET combined_text == join([i \in 1..Len(df.rows) |-> df.rows[i].clean_text])
             IN  /\ Len(combined_text) > SummaryMinLen
                 /\ pipeline_calls' =
                       [pipeline_calls EXCEPT
                           !.summarizer = <<[arg     |-> prefix(combined_text, SummaryPrefix),
                                             outcome |-> "never returns"]>>]
    /\ pc' = "blocked"
    /\ UNCHANGED <<data, df, trends, result, _sentiment_pipeline, api, twice>>

\* a complaint without a word, long enough for the summarizer to be called
\* (len(combined_text) > 50)
Dots == 51

dots_complaint == repeat(<<".">>, Dots)

\* short texts, a text long enough for the summarizer, and missing ones
BlockingBatches ==
    {<<Str(fan)>>, <<Str(mess), Str(fan)>>, <<Str(dots_complaint)>>, <<NaN>>, <<NoKey>>, <<>>}

\* the statements of process_complaints, which the interpreter keeps running
Stages ==
    \/ clean_data
    \/ classify_complaints
    \/ analyze_sentiment
    \/ sentiment_call_never_returns
    \/ extract_trends
    \/ summarizer_call_never_returns
    \/ return_dashboard

NextBlocking ==
    \/ (\E d \in BlockingBatches : process_complaints(d)) /\ UNCHANGED <<api, twice>>
    \/ Stages

\* the positions of a call whose next statement the interpreter will run
Running == {"loaded", "cleaned", "classified", "toned", "trended"}

\* the call takes its next step.  In every position of Running one of the
\* Stages is enabled and every step of Stages changes pc, so weak fairness of
\* this action is weak fairness of Stages: a call is never left standing
\* before a statement it can run.
call_proceeds ==
    /\ pc \in Running
    /\ pc' \in (Running \cup {"done", "blocked"}) \ {pc}

SpecBlocking == Init /\ [][NextBlocking]_vars /\ WF_pc(call_proceeds)

\* C22: no pipeline operation blocks indefinitely: when a call of the
\* sentiment or of the summarization pipeline never returns it is abandoned
\* after a timeout, and process_complaints eventually completes with the
\* fallback.
C22_CallEventuallyCompletes ==
    (pc \notin {"idle", "done"}) ~> (pc = "done")

(***************************************************************************)
(* What process_complaints returns (Spec).                                 *)
(***************************************************************************)
\* the keys of dashboard_data
dashboard_keys ==
    {"total_complaints", "complaint_volume_by_category", "sentiment_overview",
     "urgency_distribution", "weekly_summary", "top_recurring_issues", "processed_complaints"}

\* C23: process_complaints never lets an exception escape to its caller: for
\* every input it returns None, or a dashboard that has all of
\* total_complaints, complaint_volume_by_category, sentiment_overview,
\* urgency_distribution, weekly_summary, top_recurring_issues and
\* processed_complaints, with exactly total_complaints processed complaints.
C23_ReturnsNoneOrDashboard ==
    /\ result.kind \in {"pending", "None", "dashboard"}
    /\ pc = "done" =>
          \/ result = None
          \/ /\ result.kind = "dashboard"
             /\ dashboard_keys \subseteq DOMAIN result
             /\ Len(result.processed_complaints) = result.total_complaints

\* the KeyError of a batch without any raw_text key was caught, after an
\* earlier call on the same summarizer had loaded the pipelines
C23_Witness ==
    /\ pc = "done"
    /\ data = <<NoKey>>
    /\ result = None
    /\ _sentiment_pipeline = "loaded"
    /\ _summarizer_pipeline = "loaded"

(***************************************************************************)
(* Properties of the stored rows (SpecDb).                                 *)
(***************************************************************************)
\* no request is being handled
at_rest == endpoint = "none" \/ status # 0

\* the analysis_results rows that reference the grievance
analyses_of(grievance) ==
    {k \in 1..Len(tables.analysis_results) :
        tables.analysis_results[k].grievance_id = grievance.id}

\* C24: after any sequence of POST /analyze/single/db requests, failed ones
\* included, every row of user_grievances has exactly one analysis_results
\* row referencing it and every analysis_results row references an existing
\* grievance: a request that ends in an error leaves no grievance stored
\* without its analysis.
C24_EveryGrievanceHasItsAnalysis ==
    at_rest =>
        /\ \A g \in 1..Len(tables.user_grievances) :
              Cardinality(analyses_of(tables.user_grievances[g])) = 1
        /\ \A k \in 1..Len(tables.analysis_results) :
              \E g \in 1..Len(tables.user_grievances) :
                 tables.user_grievances[g].id = tables.analysis_results[k].grievance_id

\* the figures of the weekly_summary of GET /analytics/db are the numbers of
\* stored analysis results with that label
stored_with(col, label) ==
    Cardinality({k \in 1..Len(tables.analysis_results) : tables.analysis_results[k][col] = label})

\* C25: the weekly_summary of GET /analytics/db reports as its
\* negative-sentiment figure and as its high-urgency figure the number of
\* stored analysis results whose sentiment is Negative and whose urgency is
\* High, the results having been stored by POST /analyze/single/db with the
\* labels of the pipeline.
C25_SummaryCountsStoredLabels ==
    (endpoint = "analytics_db" /\ status = 200) =>
        /\ analytics.weekly_summary.negative_count = stored_with("sentiment", "Negative")
        /\ analytics.weekly_summary.high_urgency_count = stored_with("urgency", "High")

============================================================================
